---- MODULE Spec2Model ----
(***************************************************************************)
(* Model of the async_notification crate: the real-time-signal backend     *)
(* (src/src/signal.rs) and the tagging dispatcher (src/src/interface.rs).  *)
(*                                                                         *)
(* Each caller thread executes the handlers statement by statement; one    *)
(* action is one access to the shared statics (IS_INIT, SIG_NUM, SIGNALS,  *)
(* USED, NEXT) together with the local computation around it.  The pc      *)
(* labels are the source lines of signal.rs ("n56" = new_id, line 56).     *)
(***************************************************************************)
EXTENDS Integers, Sequences, FiniteSets, TLC

(* ------------------------------ bounds -------------------------------- *)

\* libc::SIGRTMAX() on Linux
SIGRTMAX == 64
\* SIGRTMIN() is SIGRTMAX - PoolSpan; the platform gives 30 (34..64), the
\* model keeps the top of that range, which contains the two excluded values.
PoolSpan == 4
\* width of the usize cursor NEXT in the model (64 on the platform); 2^WordBits
\* is a multiple of the probe modulus, as 2^64 is
WordBits == 2
\* notify calls peers make against this process
MaxNotify == 2

\* the threads that call into the backend
Callers == {"t1", "t2"}
\* the task that allocates, waits and releases while peers ring it
Tasks == {"t1"}

SIGRTMIN == SIGRTMAX - PoolSpan
WordMod == 2 ^ WordBits

(* ------------------------- u64 handles (interface.rs) ------------------ *)

\* A u64 is kept as three bit fields: bits 63-56, bits 55-32 and bits 31-0.
U64(hi, mid, lo) == [hi8 |-> hi, mid24 |-> mid, lo32 |-> lo]

RECURSIVE BitAnd(_, _)
BitAnd(a, b) ==
    IF a = 0 \/ b = 0 THEN 0
    ELSE (a % 2) * (b % 2) + 2 * BitAnd(a \div 2, b \div 2)

RECURSIVE BitOr(_, _)
BitOr(a, b) ==
    IF a = 0 THEN b
    ELSE IF b = 0 THEN a
    ELSE (IF a % 2 = 1 \/ b % 2 = 1 THEN 1 ELSE 0) + 2 * BitOr(a \div 2, b \div 2)

\* const SIGNAL_HIGH8: u64 = 0x01 << 56;  const UINTR_HIGH8: u64 = 0x02 << 56;
SIGNAL_HIGH8 == U64(1, 0, 0)
UINTR_HIGH8 == U64(2, 0, 0)

\* id & 0xFF00_0000_0000_0000
High8(id) == U64(BitAnd(id.hi8, 255), 0, 0)
\* (faulty variant) the tag is left in the id
IdInnerKeepTag(id) == id
\* id & 0x00FF_FFFF_FFFF_FFFF
IdInner(id) == U64(0, id.mid24, id.lo32)
\* a | b on u64
U64Or(a, b) == U64(BitOr(a.hi8, b.hi8), BitOr(a.mid24, b.mid24), BitOr(a.lo32, b.lo32))
\* `x as u64` for a u32
AsU64(n) == U64(0, 0, n)
\* `id as u32`: the low 32 bits
AsU32(id) == id.lo32
\* `id as usize` used as a Vec index: in bounds of a Vec of length len
IndexInBounds(id, len) == id.hi8 = 0 /\ id.mid24 = 0 /\ id.lo32 < len
\* ... and the index itself when it is in bounds
AsIndex(id) == id.lo32

\* `id as libc::c_int`: the low 32 bits (the model's ids stay below 2^31)
AsCInt(id) == id.lo32

\* (faulty variant) a tag that matches no backend falls through to the signal backend
MatchBackendLoose(high8) ==
    IF high8 = UINTR_HIGH8 THEN "uintr" ELSE "signal"
\* `match high8 { SIGNAL_HIGH8 => .., UINTR_HIGH8 => .., _ => panic!(..) }`
MatchBackend(high8) ==
    IF high8 = SIGNAL_HIGH8 THEN "signal"
    ELSE IF high8 = UINTR_HIGH8 THEN "uintr"
    ELSE "unknown"

\* Option<T>
None == <<>>
Some(x) == <<x>>
IsSome(o) == Len(o) = 1
Unwrap(o) == o[1]

\* (faulty variant) the tag is not applied
TagSignalBare(o) == IF IsSome(o) THEN Some(IdInner(Unwrap(o))) ELSE None
\* |id| (id & 0x00FF_FFFF_FFFF_FFFF) | SIGNAL_HIGH8, mapped over Option<u64>
TagSignal(o) == IF IsSome(o) THEN Some(U64Or(IdInner(Unwrap(o)), SIGNAL_HIGH8)) ELSE None

(* ------------------------- init() computations ------------------------- *)

\* the values init() refuses: 0x3f, 0x40
Excluded == {63, 64}

RECURSIVE SignalsFrom(_)
SignalsFrom(i) ==
    IF i > SIGRTMAX THEN <<>>
    ELSE IF i \in Excluded THEN SignalsFrom(i + 1)
    ELSE <<i>> \o SignalsFrom(i + 1)

\* the vector `signals` built by the loop of init()
InitSignalsVec == SignalsFrom(SIGRTMIN)
\* `signum`
InitSigNumVal == Len(InitSignalsVec)
\* the vector `used`: one wrapper per index 0..=SIGRTMAX
InitUsedVec == [k \in 0..SIGRTMAX |-> [used |-> FALSE, info |-> None]]

RECURSIVE Pow2AtLeast(_, _)
Pow2AtLeast(p, n) == IF p >= n THEN p ELSE Pow2AtLeast(2 * p, n)
\* usize::next_power_of_two
NextPowerOfTwo(n) == Pow2AtLeast(1, n)

\* Vec indexing is 0-based
At(vec, i) == vec[i + 1]
\* (faulty variant) every number is taken for a member
ContainsLoose(vec, x) == TRUE
\* slice::contains
Contains(vec, x) == \E k \in 1..Len(vec) : vec[k] = x

(* ------------------------------- state --------------------------------- *)

VARIABLES
    IS_INIT,      \* static IS_INIT: AtomicBool
    SIG_NUM,      \* static SIG_NUM: LazyInit<usize>          (None = not initialised)
    SIGNALS,      \* static SIGNALS: LazyInit<Vec<u32>>
    USED,         \* static USED: LazyInit<Vec<SignalsInfoWrapper>>
    NEXT,         \* static NEXT: AtomicUsize
    sigq,         \* kernel: real-time signals queued for this process, per number
    sent,         \* notify calls made against this process so far
    pc,           \* per caller: the statement it is about to execute
    loc,          \* per caller: the locals of the handler it is executing
    held,         \* per caller: the handles it was given and has not released
    delivered,    \* history: signals of a number delivered since its slot was bound
    woken,        \* history: wait_on completions on a number since its slot was bound
    base,         \* history of back-to-back allocator calls: the pool when the
                  \*   run began: "fresh" (process start), "allfree" or "partial"
                  \*   (after a release), "void" (calls overlapped, or a wait or
                  \*   a signal came in between)
    since,        \* history: new_id_signal calls returned in the run
    lastRel       \* history: the handle whose release began the run, until reissued

vars == <<IS_INIT, SIG_NUM, SIGNALS, USED, NEXT, sigq, sent, pc, loc, held,
          delivered, woken, base, since, lastRel>>

shared == <<IS_INIT, SIG_NUM, SIGNALS, USED, NEXT>>
history == <<delivered, woken, base, since, lastRel>>

SigRange == SIGRTMIN..SIGRTMAX
\* the configured signal numbers, known before init() has run
PoolSignals == {InitSignalsVec[k] : k \in 1..Len(InitSignalsVec)}
PoolSize == InitSigNumVal
\* the handle new_id_signal gives for signal number s
HandleOf(s) == U64Or(IdInner(AsU64(s)), SIGNAL_HIGH8)

Loc0 == [op |-> "none", h |-> AsU64(0), id |-> AsU64(0), mod_ |-> 0, mask |-> 0,
         curr_next |-> 0, i |-> 0, index |-> 0, ret |-> None, line |-> "",
         buffered |-> FALSE, fetched |-> 0, res |-> 0]

\* occupancy of signal number s as the program sees it
SlotUsed(s) == IF IsSome(USED) THEN Unwrap(USED)[s].used ELSE FALSE
SlotInfo(s) == IF IsSome(USED) THEN Unwrap(USED)[s].info ELSE None
FreeSlots == {s \in PoolSignals : ~SlotUsed(s)}

\* static initialisers; nothing is allocated before the first call
Init ==
    /\ IS_INIT = FALSE
    /\ SIG_NUM = None
    /\ SIGNALS = None
    /\ USED = None
    /\ NEXT = 0
    /\ sigq = [s \in SigRange |-> 0]
    /\ sent = 0
    /\ pc = [c \in Callers |-> "idle"]
    /\ loc = [c \in Callers |-> Loc0]
    /\ held = [c \in Callers |-> {}]
    /\ delivered = [s \in SigRange |-> 0]
    /\ woken = [s \in SigRange |-> 0]
    /\ base = "fresh"
    /\ since = 0
    /\ lastRel = None

(* ------------------------------ helpers -------------------------------- *)

\* no other caller is inside a handler (a task parked in wait_on is suspended)
Quiet(c) == \A d \in Callers \ {c} : pc[d] \in {"idle", "w89", "panic"}

\* the run of back-to-back allocator calls is broken
VoidHistory == base' = "void" /\ since' = 0 /\ lastRel' = None
KeepHistory == UNCHANGED <<base, since, lastRel>>

Goto(c, label) == pc' = [pc EXCEPT ![c] = label]

\* a failed assert!/unwrap()/LazyInit deref at the given line unwinds the caller
Panic(c, ln) ==
    /\ pc' = [pc EXCEPT ![c] = "panic"]
    /\ loc' = [loc EXCEPT ![c].line = ln]

\* the panic! of a dispatcher function: the call ends before any backend runs
Abort(c, op, h, ln) ==
    /\ pc' = [pc EXCEPT ![c] = "panic"]
    /\ loc' = [loc EXCEPT ![c] = [Loc0 EXCEPT !.op = op, !.h = h, !.line = ln]]

\* where a handler continues after `if !IS_INIT.load(..) { Self::init(); }`
BodyOf(op) ==
    CASE op = "new_id" -> "n52"
      [] op = "wait_on" -> "w85"
      [] op = "release_id" -> "r98"

\* (faulty variant) the cursor stops at the largest value instead of wrapping
FetchAddSaturating(n) == IF n = WordMod - 1 THEN n ELSE n + 1
\* NEXT.fetch_add(1, AcqRel): the value left behind
FetchAdd(n) == (n + 1) % WordMod

\* curr_next & mask
ProbeIndex(curr, mask) == BitAnd(curr, mask)

\* (faulty variant) the flag is set whatever value is swapped in
SwapStoreTrue(w, v) == [w EXCEPT !.used = TRUE]
\* used.swap(v, AcqRel) on wrapper w: the wrapper left behind
SwapStore(w, v) == [w EXCEPT !.used = v]

\* (faulty variant) the stream is left in the wrapper
TakeInfoKeep(w) == w
\* (faulty variant) taking the stream also clears the flag
TakeInfoFrees(w) == [w EXCEPT !.info = None, !.used = FALSE]
\* info.take(): the wrapper left behind
TakeInfo(w) == [w EXCEPT !.info = None]

\* (faulty variant) the result of the swap is not asserted
AssertResIgnored(res) == TRUE
\* assert!(res): the assertion passes
AssertRes(res) == res

\* (faulty variant) the previous value of the flag is ignored: a load-then-store claim
SwapClaimsBlind(prev) == TRUE
\* the else branch of `if USED[..].used.swap(true, AcqRel)`: the slot was free
SwapClaims(prev) == ~prev

(* ---------------------- SignalNotification::init ----------------------- *)

\* if !IS_INIT.load(Ordering::Acquire) { Self::init(); }   (lines 47, 81, 94)
CheckInit(c) ==
    /\ pc[c] \in {"n47", "w81", "r94"}
    /\ IF IS_INIT THEN Goto(c, BodyOf(loc[c].op)) ELSE Goto(c, "i112")
    /\ UNCHANGED <<shared, sigq, sent, loc, held, history>>

\* assert!(!IS_INIT.swap(true, Ordering::AcqRel));
InitSwap(c) ==
    /\ pc[c] = "i112"
    /\ IF IS_INIT
          THEN Panic(c, "signal.rs:112") /\ UNCHANGED IS_INIT
          ELSE IS_INIT' = TRUE /\ Goto(c, "i128") /\ UNCHANGED loc
    /\ UNCHANGED <<SIG_NUM, SIGNALS, USED, NEXT, sigq, sent, held, history>>

\* lines 115-128: build `signals`, SIG_NUM.init_once(signum)
InitSigNum(c) ==
    /\ pc[c] = "i128"
    /\ IF IsSome(SIG_NUM)
          THEN Panic(c, "signal.rs:128") /\ UNCHANGED SIG_NUM
          ELSE SIG_NUM' = Some(InitSigNumVal) /\ Goto(c, "i132") /\ UNCHANGED loc
    /\ UNCHANGED <<IS_INIT, SIGNALS, USED, NEXT, sigq, sent, held, history>>

\* SIGNALS.init_once(signals);
InitSignals(c) ==
    /\ pc[c] = "i132"
    /\ IF IsSome(SIGNALS)
          THEN Panic(c, "signal.rs:132") /\ UNCHANGED SIGNALS
          ELSE SIGNALS' = Some(InitSignalsVec) /\ Goto(c, "i140") /\ UNCHANGED loc
    /\ UNCHANGED <<IS_INIT, SIG_NUM, USED, NEXT, sigq, sent, held, history>>

\* lines 133-140: build `used`, USED.init_once(used); init() returns
InitUsed(c) ==
    /\ pc[c] = "i140"
    /\ IF IsSome(USED)
          THEN Panic(c, "signal.rs:140") /\ UNCHANGED USED
          ELSE USED' = Some(InitUsedVec) /\ Goto(c, BodyOf(loc[c].op)) /\ UNCHANGED loc
    /\ UNCHANGED <<IS_INIT, SIG_NUM, SIGNALS, NEXT, sigq, sent, held, history>>

(* --------------------- SignalNotification::new_id ---------------------- *)

\* Notification::new_id_signal() is called: it calls SignalNotification::new_id()
CallNewIdSignal(c) ==
    /\ pc[c] = "idle"
    /\ loc' = [loc EXCEPT ![c] = [Loc0 EXCEPT !.op = "new_id"]]
    /\ Goto(c, "n47")
    /\ IF Quiet(c) THEN KeepHistory ELSE VoidHistory
    /\ UNCHANGED <<shared, sigq, sent, held, delivered, woken>>

\* lines 52-54: mod_ = SIG_NUM.next_power_of_two(); mask = mod_ - 1
ReadSigNum(c) ==
    /\ pc[c] = "n52"
    /\ IF IsSome(SIG_NUM)
          THEN /\ loc' = [loc EXCEPT ![c].mod_ = NextPowerOfTwo(Unwrap(SIG_NUM)),
                                     ![c].mask = NextPowerOfTwo(Unwrap(SIG_NUM)) - 1]
               /\ Goto(c, "n56")
          ELSE Panic(c, "signal.rs:52")
    /\ UNCHANGED <<shared, sigq, sent, held, history>>

\* line 56: let mut curr_next = NEXT.fetch_add(1, AcqRel); the loop starts
FetchCursor(c) ==
    /\ pc[c] = "n56"
    /\ loc' = [loc EXCEPT ![c].curr_next = NEXT, ![c].i = 0, ![c].fetched = 0]
    /\ NEXT' = FetchAdd(NEXT)
    /\ Goto(c, "n57")
    /\ UNCHANGED <<IS_INIT, SIG_NUM, SIGNALS, USED, sigq, sent, held, history>>

\* lines 57-65: one iteration of `for _ in 0..mod_` up to the swap, or the
\* end of the loop and `None` (line 77)
Probe(c) ==
    /\ pc[c] = "n57"
    /\ LET L == loc[c]
           index == ProbeIndex(L.curr_next, L.mask)
       IN IF L.i >= L.mod_
             THEN /\ loc' = [loc EXCEPT ![c].ret = None]
                  /\ Goto(c, "s88")
                  /\ UNCHANGED USED
          ELSE IF index >= Unwrap(SIG_NUM)
             THEN \* continue
                  /\ loc' = [loc EXCEPT ![c].i = L.i + 1]
                  /\ UNCHANGED <<pc, USED>>
          ELSE IF ~IsSome(SIGNALS) \/ ~IsSome(USED)
             THEN Panic(c, "signal.rs:62") /\ UNCHANGED USED
          ELSE LET sig == At(Unwrap(SIGNALS), index)
                   prev == Unwrap(USED)[sig].used
               IN /\ USED' = Some([Unwrap(USED) EXCEPT ![sig] = SwapStore(@, TRUE)])
                  /\ loc' = [loc EXCEPT ![c].index = index]
                  /\ IF SwapClaims(prev) THEN Goto(c, "n71") ELSE Goto(c, "n67")
    /\ UNCHANGED <<IS_INIT, SIG_NUM, SIGNALS, NEXT, sigq, sent, held, history>>

\* line 67: curr_next = NEXT.fetch_add(1, AcqRel); next iteration
Refetch(c) ==
    /\ pc[c] = "n67"
    /\ loc' = [loc EXCEPT ![c].curr_next = NEXT, ![c].i = loc[c].i + 1,
                           ![c].fetched = loc[c].i + 1]
    /\ NEXT' = FetchAdd(NEXT)
    /\ Goto(c, "n57")
    /\ UNCHANGED <<IS_INIT, SIG_NUM, SIGNALS, USED, sigq, sent, held, history>>

\* (faulty variant) the stream is registered for the slot index, not the signal number
NewStreamForIndex(s) == [sig |-> s - SIGRTMIN, pending |-> FALSE]
\* Signals::new([s]): a stream registered for signal s, nothing received yet
NewStream(s) == [sig |-> s, pending |-> FALSE]

\* lines 70-74: info.replace(Signals::new([sig]).unwrap()); return Some(sig)
Bind(c) ==
    /\ pc[c] = "n71"
    /\ LET sig == At(Unwrap(SIGNALS), loc[c].index)
       IN /\ USED' = Some([Unwrap(USED) EXCEPT ![sig].info = Some(NewStream(sig))])
          /\ loc' = [loc EXCEPT ![c].ret = Some(AsU64(sig))]
          /\ delivered' = [delivered EXCEPT ![sig] = 0]
          /\ woken' = [woken EXCEPT ![sig] = 0]
    /\ Goto(c, "s88")
    /\ UNCHANGED <<IS_INIT, SIG_NUM, SIGNALS, NEXT, sigq, sent, held,
                   base, since, lastRel>>

\* history of the results handed to callers
SinceCap == NextPowerOfTwo(PoolSize) + 1

\* interface.rs 87-89: new_id_signal tags the result and returns it to the caller
NewIdSignalReturn(c) ==
    /\ pc[c] = "s88"
    /\ LET r == TagSignal(loc[c].ret)
       IN /\ held' = [held EXCEPT ![c] = IF IsSome(r) THEN held[c] \cup {Unwrap(r)}
                                                       ELSE held[c]]
          /\ since' = IF base # "void" /\ since < SinceCap THEN since + 1 ELSE since
          /\ lastRel' = IF r = lastRel THEN None ELSE lastRel
    /\ loc' = [loc EXCEPT ![c] = Loc0]
    /\ Goto(c, "idle")
    /\ UNCHANGED <<shared, sigq, sent, delivered, woken, base>>

(* -------------------- SignalNotification::release_id ------------------- *)

\* interface.rs 56-68: Notification::release_id(h) decodes the tag and forwards
CallReleaseId(c, h) ==
    /\ pc[c] = "idle"
    /\ IF MatchBackend(High8(h)) = "signal"
          THEN /\ loc' = [loc EXCEPT ![c] = [Loc0 EXCEPT !.op = "release_id", !.h = h,
                                                          !.id = IdInner(h)]]
               /\ Goto(c, "r94")
       ELSE IF MatchBackend(High8(h)) = "uintr"
          THEN \* UIntrNotification::release_id: the other backend
               UNCHANGED <<pc, loc>>
       ELSE Abort(c, "release_id", h, "interface.rs:63")
    /\ IF Quiet(c) THEN KeepHistory ELSE VoidHistory
    /\ UNCHANGED <<shared, sigq, sent, held, delivered, woken>>

\* lines 98-99: assert!(SIGNALS.contains(&(id as u32))); USED[id].info.take()
ReleaseTake(c) ==
    /\ pc[c] = "r98"
    /\ LET id == loc[c].id
       IN IF ~IsSome(SIGNALS) \/ ~Contains(Unwrap(SIGNALS), AsU32(id))
             THEN Panic(c, "signal.rs:98") /\ UNCHANGED <<USED, delivered, woken>>
          ELSE IF ~IsSome(USED) \/ ~IndexInBounds(id, SIGRTMAX + 1)
             THEN Panic(c, "signal.rs:99") /\ UNCHANGED <<USED, delivered, woken>>
          ELSE /\ USED' = Some([Unwrap(USED) EXCEPT ![AsIndex(id)] = TakeInfo(@)])
               /\ delivered' = [delivered EXCEPT ![AsIndex(id)] = 0]
               /\ woken' = [woken EXCEPT ![AsIndex(id)] = 0]
               /\ Goto(c, "r100")
               /\ UNCHANGED loc
    /\ UNCHANGED <<IS_INIT, SIG_NUM, SIGNALS, NEXT, sigq, sent, held,
                   base, since, lastRel>>

\* lines 100-101: let res = USED[id].used.swap(false, AcqRel); assert!(res);
ReleaseSwap(c) ==
    /\ pc[c] = "r100"
    /\ LET k == AsIndex(loc[c].id)
           res == Unwrap(USED)[k].used
           after == [Unwrap(USED) EXCEPT ![k] = SwapStore(@, FALSE)]
       IN /\ USED' = Some(after)
          /\ IF AssertRes(res)
                THEN /\ held' = [held EXCEPT ![c] = held[c] \ {loc[c].h}]
                     /\ IF Quiet(c) /\ base # "void"
                           THEN /\ base' = IF \A s \in PoolSignals : ~after[s].used
                                              THEN "allfree" ELSE "partial"
                                /\ since' = 0
                                /\ lastRel' = Some(loc[c].h)
                           ELSE VoidHistory
                     /\ loc' = [loc EXCEPT ![c] = Loc0]
                     /\ Goto(c, "idle")
                ELSE /\ Panic(c, "signal.rs:101")
                     /\ UNCHANGED <<held, base, since, lastRel>>
    /\ UNCHANGED <<IS_INIT, SIG_NUM, SIGNALS, NEXT, sigq, sent, delivered, woken>>

(* ---------------------- SignalNotification::wait_on -------------------- *)

\* interface.rs 45-54: Notification::wait_on(h) decodes the tag and forwards
CallWaitOn(c, h) ==
    /\ pc[c] = "idle"
    /\ IF MatchBackend(High8(h)) = "signal"
          THEN /\ loc' = [loc EXCEPT ![c] =
                            [Loc0 EXCEPT !.op = "wait_on", !.h = h, !.id = IdInner(h),
                                         !.buffered = /\ IndexInBounds(IdInner(h), SIGRTMAX + 1)
                                                      /\ IsSome(SlotInfo(AsIndex(IdInner(h))))
                                                      /\ Unwrap(SlotInfo(AsIndex(IdInner(h)))).pending]]
               /\ Goto(c, "w81")
       ELSE IF MatchBackend(High8(h)) = "uintr"
          THEN \* UIntrNotification::wait_on: the other backend
               UNCHANGED <<pc, loc>>
       ELSE Abort(c, "wait_on", h, "interface.rs:52")
    /\ VoidHistory
    /\ UNCHANGED <<shared, sigq, sent, held, delivered, woken>>

\* lines 85-88: assert!(SIGNALS.contains(..)); USED[id].info.as_mut().unwrap()
WaitBind(c) ==
    /\ pc[c] = "w85"
    /\ LET id == loc[c].id
       IN IF ~IsSome(SIGNALS) \/ ~Contains(Unwrap(SIGNALS), AsU32(id))
             THEN Panic(c, "signal.rs:85")
          ELSE IF ~IsSome(USED) \/ ~IndexInBounds(id, SIGRTMAX + 1)
             THEN Panic(c, "signal.rs:86")
          ELSE IF ~IsSome(Unwrap(USED)[AsIndex(id)].info)
             THEN Panic(c, "signal.rs:88")
          ELSE Goto(c, "w89") /\ UNCHANGED loc
    /\ UNCHANGED <<shared, sigq, sent, held, history>>

\* (faulty variant) next() yields whether or not a signal was recorded
StreamReadyAlways(info) == IsSome(info)
\* the stream has an item for next() to yield
StreamReady(info) == IsSome(info) /\ Unwrap(info).pending

\* lines 89-90: .next().await completes when the stream yields the signal
Await(c) ==
    /\ pc[c] = "w89"
    /\ LET k == AsIndex(loc[c].id)
           info == Unwrap(USED)[k].info
       IN /\ StreamReady(info)
          /\ USED' = Some([Unwrap(USED) EXCEPT
                             ![k].info = Some([Unwrap(info) EXCEPT !.pending = FALSE])])
          /\ woken' = [woken EXCEPT ![k] = woken[k] + 1]
    /\ loc' = [loc EXCEPT ![c] = Loc0]
    /\ Goto(c, "idle")
    /\ UNCHANGED <<IS_INIT, SIG_NUM, SIGNALS, NEXT, sigq, sent, held,
                   delivered, base, since, lastRel>>

(* ------------------ notify (peer process) and the kernel --------------- *)

\* libc::kill(pid, sig): one more real-time signal sig queued for the process
KillQueue(q, sig) == [q EXCEPT ![sig] = q[sig] + 1]

\* interface.rs 70-79 and signal.rs 104-107, run by a peer against this
\* process: libc::kill(process as pid_t, id as c_int)
Notify(h) ==
    /\ \E c \in Callers : h \in held[c]
    /\ High8(h) = SIGNAL_HIGH8
    /\ LET sig == AsU32(IdInner(h))
       IN /\ sig \in SigRange
          /\ sent < MaxNotify
          /\ sent' = sent + 1
          /\ sigq' = KillQueue(sigq, sig)
    /\ VoidHistory
    /\ UNCHANGED <<shared, pc, loc, held, delivered, woken>>

\* the kernel's answer to kill(pid, sig) for this process: TRUE when it returns
\* 0.  Signal 0 only probes the process; 1..SIGRTMAX are signals; anything
\* else is EINVAL.  For 0x3f and 0x40 the platform decides (the comment at
\* lines 119-120 reports a non-zero return).
KillOutcomes(sig) ==
    IF sig \in Excluded THEN {TRUE, FALSE} ELSE {sig \in 0..SIGRTMAX}

\* interface.rs 70-79: Notification::notify(process, h), called by a thread of
\* this process with its own pid, decodes the tag and forwards
CallNotify(c, h) ==
    /\ pc[c] = "idle"
    /\ sent < MaxNotify
    /\ sent' = sent + 1
    /\ IF MatchBackend(High8(h)) = "signal"
          THEN /\ loc' = [loc EXCEPT ![c] = [Loc0 EXCEPT !.op = "notify", !.h = h,
                                                          !.id = IdInner(h)]]
               /\ Goto(c, "k105")
       ELSE IF MatchBackend(High8(h)) = "uintr"
          THEN \* UIntrNotification::notify: the other backend
               UNCHANGED <<pc, loc>>
       ELSE Abort(c, "notify", h, "interface.rs:77")
    /\ VoidHistory
    /\ UNCHANGED <<shared, sigq, held, delivered, woken>>

\* line 105: let res = libc::kill(process as pid_t, id as c_int)
Kill(c) ==
    /\ pc[c] = "k105"
    /\ LET sig == AsCInt(loc[c].id)
       IN \E ok \in KillOutcomes(sig) :
             /\ loc' = [loc EXCEPT ![c].res = IF ok THEN 0 ELSE -1]
             /\ sigq' = IF ok /\ sig \in SigRange THEN KillQueue(sigq, sig) ELSE sigq
    /\ Goto(c, "k106")
    /\ UNCHANGED <<shared, sent, held, history>>

\* line 106: assert!(res == 0); notify returns
NotifyAssert(c) ==
    /\ pc[c] = "k106"
    /\ IF loc[c].res = 0
          THEN loc' = [loc EXCEPT ![c] = Loc0] /\ Goto(c, "idle")
          ELSE Panic(c, "signal.rs:106")
    /\ UNCHANGED <<shared, sigq, sent, held, history>>

\* (faulty variant) the handler records nothing
HandlerStoreDrop(info) == info
\* what the handler registered by Signals::new does with one signal: the
\* stream records that its signal is pending.  `Signals` is signal_hook's
\* SignalsInfo<SignalOnly>: it keeps one flag per registered signal, set by the
\* handler and cleared when next() yields the signal, not a count.
HandlerStore(info) == Some([Unwrap(info) EXCEPT !.pending = TRUE])

\* the kernel takes one queued signal s and runs the process's handler
Deliver(s) ==
    /\ sigq[s] > 0
    /\ sigq' = [sigq EXCEPT ![s] = sigq[s] - 1]
    /\ IF IsSome(USED)
          THEN /\ USED' = Some([k \in DOMAIN Unwrap(USED) |->
                            LET w == Unwrap(USED)[k]
                            IN IF IsSome(w.info) /\ Unwrap(w.info).sig = s
                                  THEN [w EXCEPT !.info = HandlerStore(w.info)]
                                  ELSE w])
               /\ delivered' = IF IsSome(Unwrap(USED)[s].info)
                                  THEN [delivered EXCEPT ![s] = delivered[s] + 1]
                                  ELSE delivered
          ELSE UNCHANGED <<USED, delivered>>
    /\ VoidHistory
    /\ UNCHANGED <<IS_INIT, SIG_NUM, SIGNALS, NEXT, sent, pc, loc, held, woken>>

(* --------------------------- specifications ---------------------------- *)

\* the allocator's handlers: new_id (with the lazy init) and release_id
AllocStep(c) ==
    \/ CallNewIdSignal(c)
    \/ CheckInit(c)
    \/ InitSwap(c)
    \/ InitSigNum(c)
    \/ InitSignals(c)
    \/ InitUsed(c)
    \/ ReadSigNum(c)
    \/ FetchCursor(c)
    \/ Probe(c)
    \/ Refetch(c)
    \/ Bind(c)
    \/ NewIdSignalReturn(c)
    \/ \E h \in held[c] : CallReleaseId(c, h)
    \/ ReleaseTake(c)
    \/ ReleaseSwap(c)

WaitStep(c) ==
    \/ \E h \in held[c] : CallWaitOn(c, h)
    \/ WaitBind(c)

Environment ==
    \/ \E h \in UNION {held[c] : c \in Callers} : Notify(h)
    \/ \E s \in SigRange : Deliver(s)

\* any number of threads inside new_id and release_id at once
Next == \E c \in Callers : AllocStep(c)

Spec == Init /\ [][Next]_vars

\* allocator calls made one after another
SeqNext == \E c \in Callers : Quiet(c) /\ AllocStep(c)

SeqSpec == Init /\ [][SeqNext]_vars

\* one task allocating, waiting and releasing, a peer ringing and the kernel
\* delivering at any moment
NotifyNext ==
    \/ \E c \in Tasks : AllocStep(c) \/ WaitStep(c) \/ Await(c)
    \/ Environment

NotifySpec == Init /\ [][NotifyNext]_vars

\* the kernel delivers queued signals and the runtime polls woken tasks
LiveSpec ==
    /\ NotifySpec
    /\ \A s \in SigRange : WF_vars(Deliver(s))
    /\ \A c \in Tasks : WF_vars(Await(c))

\* handles a caller may pass: any tag, any bits below it
ProbeTags == {0, 1, 2, 255}
ProbeMid == {0, 1}
ProbeLow == {0, SIGRTMAX + 1} \cup SigRange
AnyHandles == {U64(t, m, l) : t \in ProbeTags, m \in ProbeMid, l \in ProbeLow}

\* wait_on, release_id and notify through the dispatcher with any handle
AnyStep(c) ==
    \/ \E h \in AnyHandles : CallReleaseId(c, h)
    \/ \E h \in AnyHandles : CallWaitOn(c, h)
    \/ \E h \in AnyHandles : CallNotify(c, h)
    \/ Kill(c)
    \/ NotifyAssert(c)

\* one task calling with handles of any value, the kernel delivering at any
\* moment
AnyNext ==
    \/ \E c \in Tasks : AllocStep(c) \/ WaitBind(c) \/ AnyStep(c) \/ Await(c)
    \/ \E s \in SigRange : Deliver(s)

MisuseSpec == Init /\ [][AnyNext]_vars

TypeOK ==
    /\ IS_INIT \in BOOLEAN
    /\ NEXT \in 0..(WordMod - 1)
    /\ \A s \in SigRange : sigq[s] \in 0..MaxNotify

(* ------------------------------- claims -------------------------------- *)

\* the ids the test computes for itself (signal.rs 191-200)
TestIds == {U64Or(AsU64(i), SIGNAL_HIGH8) : i \in {j \in SigRange : j \notin {63, 64}}}

\* new_id has returned to new_id_signal in caller c with this tagged result
Returned(c) == IF pc[c] = "s88" THEN TagSignal(loc[c].ret) ELSE None
\* the handles caller c has been given and not released
Has(c) == held[c] \cup (IF IsSome(Returned(c)) THEN {Unwrap(Returned(c))} ELSE {})
AllHeld == UNION {held[c] : c \in Callers}
ProbeMod == NextPowerOfTwo(PoolSize)
Parked(c, s) == pc[c] = "w89" /\ AsU32(loc[c].id) = s

\* C1: under any interleaving of new_id and release_id by callers that release
\* only what they hold, no handle is held by two callers at once, and no
\* caller is handed a handle it already holds.
C1_NoDoubleAllocation ==
    /\ \A c, d \in Callers : c # d => Has(c) \cap Has(d) = {}
    /\ \A c \in Callers : IsSome(Returned(c)) => Unwrap(Returned(c)) \notin held[c]

\* two callers raced for the same free slot: one claimed it, the other saw it taken
C1_Witness ==
    \E c, d \in Callers :
        /\ c # d
        /\ pc[c] = "n71" /\ pc[d] = "n67"
        /\ loc[c].index = loc[d].index
        /\ HandleOf(At(Unwrap(SIGNALS), loc[c].index)) \notin AllHeld

\* C2 (as claimed): a new_id call with nothing concurrent returns None only
\* when no slot is free, and otherwise a handle of a slot that was free; after
\* a release into a full pool the very next call returns the released handle.
C2_NoneOnlyWhenExhausted ==
    \A c \in Callers :
        pc[c] = "s88" =>
            /\ loc[c].ret = None => FreeSlots = {}
            /\ IsSome(loc[c].ret) =>
                  /\ AsU32(Unwrap(loc[c].ret)) \in PoolSignals
                  /\ SlotUsed(AsU32(Unwrap(loc[c].ret)))
                  /\ Unwrap(Returned(c)) \notin AllHeld
            /\ (IsSome(lastRel) /\ since = 0 /\ base = "partial"
                  /\ Cardinality(AllHeld) = PoolSize - 1)
                  => Returned(c) = lastRel

\* C3 (as claimed): from any state with every slot free, the first N
\* back-to-back calls return N distinct configured handles and the next None.
C3_Exhaustion ==
    \A c \in Callers :
        (pc[c] = "s88" /\ base \in {"fresh", "allfree"}) =>
            /\ since < PoolSize =>
                  /\ IsSome(loc[c].ret)
                  /\ AsU32(Unwrap(loc[c].ret)) \in PoolSignals
                  /\ Unwrap(Returned(c)) \notin AllHeld
            /\ since = PoolSize => loc[c].ret = None

\* C4: in a process that has only called new_id_signal so far, every handle
\* returned is one of the test's ids (tag 0x01 in bits 63-56, the signal number
\* below), and when a call returns None every one of them has been returned.
C4_FreshEnumeration ==
    base = "fresh" =>
        /\ AllHeld \subseteq TestIds
        /\ \A h \in AllHeld : h.hi8 = 1 /\ h.mid24 = 0 /\ h.lo32 \in PoolSignals
        /\ \A c \in Callers :
              /\ IsSome(Returned(c)) => Unwrap(Returned(c)) \in TestIds \ AllHeld
              /\ (pc[c] = "s88" /\ loc[c].ret = None) => AllHeld = TestIds

\* the call that first returns None, with the whole pool handed out
C4_Witness ==
    /\ base = "fresh"
    /\ \E c \in Callers : pc[c] = "s88" /\ loc[c].ret = None /\ since = PoolSize
    /\ AllHeld = TestIds

\* C5: after release_id(h), back-to-back new_id calls reissue h within M calls
\* (M the smallest power of two >= pool size).
C5_ReuseWithinSweep == IsSome(lastRel) => since < ProbeMod

\* the released handle comes back on exactly the M-th call
C5_Witness ==
    \E c \in Callers :
        /\ pc[c] = "s88"
        /\ IsSome(lastRel)
        /\ Returned(c) = lastRel
        /\ since = ProbeMod - 1

\* C6: a task parked in wait_on(h) for which a notify has been sent eventually
\* resumes.
C6_WakeupLiveness ==
    \A c \in Callers : \A s \in PoolSignals :
        (Parked(c, s) /\ (sigq[s] > 0 \/ StreamReady(SlotInfo(s)))) ~> (pc[c] = "idle")

\* a task is parked with nothing recorded yet and its notify is in the kernel
C6_Witness ==
    \E c \in Callers : \E s \in PoolSignals :
        Parked(c, s) /\ sigq[s] = 1 /\ ~StreamReady(SlotInfo(s)) /\ delivered[s] = 0

\* C7 (as claimed): k notifies give k wakeups: a waiter that is suspended
\* again with nothing left in flight has completed once per delivered notify.
C7_NoCoalescing ==
    \A c \in Callers : \A s \in PoolSignals :
        (Parked(c, s) /\ sigq[s] = 0 /\ ~StreamReady(SlotInfo(s)))
            => woken[s] = delivered[s]

\* C8: completions of wait_on(h) never outnumber the notifies delivered for h
\* since h was allocated; a notify for another handle completes nothing.
C8_NoSpuriousWakeup == \A s \in SigRange : woken[s] <= delivered[s]

\* a notify for t was delivered while a task stays suspended on s
C8_Witness ==
    \E c \in Callers : \E s, t \in PoolSignals :
        /\ s # t
        /\ Parked(c, s) /\ delivered[s] = 0 /\ ~StreamReady(SlotInfo(s))
        /\ delivered[t] >= 1 /\ woken[t] = 0

\* C9: a notify delivered after new_id returned h and before the first
\* wait_on(h) is kept: that wait_on finds the stream ready.
C9_NoLostWakeup ==
    \A c \in Callers : \A s \in PoolSignals :
        (Parked(c, s) /\ delivered[s] >= 1 /\ woken[s] = 0) => StreamReady(SlotInfo(s))

\* wait_on was called with the signal already buffered and is about to complete
C9_Witness ==
    \E c \in Callers : \E s \in PoolSignals :
        /\ Parked(c, s) /\ loc[c].buffered
        /\ delivered[s] >= 1 /\ woken[s] = 0 /\ StreamReady(SlotInfo(s))

\* C10 (as claimed): concurrent first use aborts no caller.
C10_ConcurrentFirstUse == \A c \in Callers : pc[c] # "panic"

\* what the program holds for every index of USED: occupancy and bound stream
Slots == [k \in 0..SIGRTMAX |-> <<SlotUsed(k), SlotInfo(k)>>]
\* the inner id is one of the pool's configured signal numbers
Configured(id) == id.hi8 = 0 /\ id.mid24 = 0 /\ id.lo32 \in PoolSignals
DispatchedOps == {"wait_on", "release_id", "notify"}
DispatchLines == {"interface.rs:52", "interface.rs:63", "interface.rs:77"}
\* caller c is inside the signal backend's op with inner id loc[c].id
InBackend(c, ops) ==
    /\ loc[c].op \in ops
    /\ loc[c].line \notin DispatchLines
    /\ pc[c] # "idle"

\* C11: release_id of a configured signal number whose slot is not occupied
\* never returns: the call ends in the failed assert!(res) of line 101, and
\* every step of it leaves the slot free, without a stream, and held by nobody.
C11_DoubleReleaseDetected ==
    /\ [](\A c \in Callers :
            (pc[c] = "panic" /\ loc[c].op = "release_id" /\ loc[c].line = "signal.rs:101")
                => /\ ~SlotUsed(AsIndex(loc[c].id))
                   /\ SlotInfo(AsIndex(loc[c].id)) = None
                   /\ loc[c].h \notin AllHeld)
    /\ [][\A c \in Callers :
            (/\ InBackend(c, {"release_id"})
             /\ Configured(loc[c].id)
             /\ ~SlotUsed(AsIndex(loc[c].id))
             /\ pc'[c] # pc[c])
                => /\ pc'[c] # "idle"
                   /\ pc[c] = "r100" => (pc'[c] = "panic" /\ loc'[c].line = "signal.rs:101")
                   /\ Slots' = Slots
                   /\ held' = held]_vars

\* a handle was allocated, released, and released again: the second release aborted
C11_Witness ==
    \E c \in Callers :
        /\ pc[c] = "panic" /\ loc[c].op = "release_id" /\ loc[c].line = "signal.rs:101"
        /\ loc[c].h = HandleOf(At(InitSignalsVec, 0))
        /\ NEXT = 1 /\ AllHeld = {}

\* C12: wait_on, release_id and notify with a handle whose top 8 bits are
\* neither 0x01 nor 0x02 end in the dispatcher's panic!, whatever the low 56
\* bits, and that step changes no static of the backend, queues no signal and
\* changes nobody's handles.
C12_UnknownTagAborts ==
    /\ [](\A c \in Callers :
            (loc[c].op \in DispatchedOps /\ loc[c].h.hi8 \notin {1, 2})
                => /\ pc[c] = "panic"
                   /\ loc[c].line = (CASE loc[c].op = "wait_on" -> "interface.rs:52"
                                        [] loc[c].op = "release_id" -> "interface.rs:63"
                                        [] loc[c].op = "notify" -> "interface.rs:77"))
    /\ [][\A c \in Callers :
            (pc[c] = "idle" /\ pc'[c] = "panic")
                => (shared' = shared /\ sigq' = sigq /\ held' = held)]_vars

\* a handle with tag 0xFF over a configured signal number that is occupied
C12_Witness ==
    \E c \in Callers :
        /\ pc[c] = "panic" /\ loc[c].op = "release_id"
        /\ loc[c].h.hi8 = 255 /\ loc[c].h.mid24 = 0
        /\ loc[c].h.lo32 \in PoolSignals
        /\ SlotUsed(loc[c].h.lo32)

\* C13 (as claimed): notify with an inner id that is not a configured signal
\* number aborts: kill is not answered with 0, so no signal is sent.
C13_NotifyValidates ==
    \A c \in Callers :
        (pc[c] = "k106" /\ ~Configured(loc[c].id)) => loc[c].res # 0

\* C14: wait_on and release_id with an inner id that is not a configured signal
\* number never get past their first two statements (the assert! and the
\* indexing of USED), never return, and leave every slot as it was.
C14_WaitReleaseValidate ==
    /\ [](\A c \in Callers :
            (InBackend(c, {"wait_on", "release_id"}) /\ ~Configured(loc[c].id))
                => /\ pc[c] \in {"w81", "r94", "i112", "i128", "i132", "i140",
                                  "w85", "r98", "panic"}
                   /\ pc[c] = "panic" =>
                         loc[c].line \in {"signal.rs:85", "signal.rs:86",
                                          "signal.rs:98", "signal.rs:99"})
    /\ [][\A c \in Callers :
            (/\ InBackend(c, {"wait_on", "release_id"})
             /\ ~Configured(loc[c].id)
             /\ pc'[c] # pc[c])
                => (pc'[c] # "idle" /\ Slots' = Slots /\ held' = held)]_vars

\* release_id of an id whose low 32 bits are an occupied configured number but
\* whose bits above are not zero: the assert! passes, the indexing aborts
C14_Witness ==
    \E c \in Callers :
        /\ pc[c] = "panic" /\ loc[c].op = "release_id"
        /\ loc[c].line = "signal.rs:99"
        /\ loc[c].id.mid24 = 1
        /\ SlotUsed(loc[c].id.lo32)
        /\ IsSome(SlotInfo(loc[c].id.lo32))

\* C15: for a handle H = (0x01 << 56) | s the dispatcher hands the backend the
\* low 56 bits of H, which is s, and the backend's op changes no slot but s and
\* queues no signal but s.
C15_RoutingPreservesHandle ==
    /\ [](\A c \in Callers :
            InBackend(c, DispatchedOps)
                => /\ High8(loc[c].h) = SIGNAL_HIGH8
                   /\ loc[c].id.hi8 = 0
                   /\ loc[c].id.mid24 = loc[c].h.mid24
                   /\ loc[c].id.lo32 = loc[c].h.lo32
                   /\ \A s \in PoolSignals :
                         loc[c].h = HandleOf(s) => loc[c].id = AsU64(s))
    /\ [][\A c \in Callers : \A s \in PoolSignals :
            (InBackend(c, DispatchedOps) /\ loc[c].h = HandleOf(s) /\ pc'[c] # pc[c])
                => /\ \A k \in (0..SIGRTMAX) \ {s} : Slots'[k] = Slots[k]
                   /\ \A k \in SigRange \ {s} : sigq'[k] = sigq[k]]_vars

\* release_id(H) has reached the swap on slot s while another slot is occupied
C15_Witness ==
    \E c \in Callers : \E s, t \in PoolSignals :
        /\ s # t
        /\ pc[c] = "r100" /\ loc[c].h = HandleOf(s) /\ loc[c].id = AsU64(s)
        /\ SlotUsed(s) /\ SlotUsed(t) /\ IsSome(SlotInfo(t))

\* C16 (as claimed): every probe of a new_id call examines a cursor value
\* fetched for that probe: after a position that masks to an index >= the pool
\* size, the next probe of the call uses a freshly fetch-and-incremented value.
C16_OutOfRangeReprobes ==
    \A c \in Callers :
        (pc[c] = "n57" /\ loc[c].i < loc[c].mod_) => loc[c].fetched = loc[c].i

\* C17: occupancy changes one slot at a time and only in two steps: the swap of
\* new_id that finds the slot free (that call then returns Some of this very
\* slot) turns it Occupied, and the swap of release_id(h) turns slot h Free.
\* A new_id that returns None, wait_on, notify and signal delivery change none.
C17_FrameEffects ==
    [][/\ \A k \in 0..SIGRTMAX :
             SlotUsed(k)' # SlotUsed(k) =>
                 \E c \in Callers :
                     \/ /\ pc[c] = "n57" /\ pc'[c] = "n71"
                        /\ ~SlotUsed(k) /\ SlotUsed(k)'
                        /\ k = At(InitSignalsVec, loc'[c].index)
                     \/ /\ pc[c] = "r100" /\ pc'[c] = "idle"
                        /\ SlotUsed(k) /\ ~SlotUsed(k)'
                        /\ k = AsIndex(loc[c].id)
       /\ Cardinality({k \in 0..SIGRTMAX : SlotUsed(k)' # SlotUsed(k)}) <= 1
       /\ \A c \in Callers :
             /\ (pc[c] = "n71" /\ pc'[c] = "s88") =>
                   /\ loc'[c].ret = Some(AsU64(At(InitSignalsVec, loc[c].index)))
                   /\ SlotUsed(At(InitSignalsVec, loc[c].index))'
             /\ (pc[c] = "n57" /\ pc'[c] = "s88") => loc'[c].ret = None
             /\ (pc[c] = "r100" /\ pc'[c] = "idle") =>
                   SlotUsed(AsIndex(loc[c].id)) /\ ~SlotUsed(AsIndex(loc[c].id))'
      ]_vars

\* a new_id call is returning None with the whole pool occupied
C17_Witness ==
    \E c \in Callers :
        /\ pc[c] = "s88" /\ loc[c].ret = None
        /\ FreeSlots = {}
        /\ \A s \in PoolSignals : IsSome(SlotInfo(s))

\* C18 (as claimed): under any interleaving every new_id call ends with Some
\* or None after at most M probes: a caller inside new_id has made at most M
\* iterations, can always take its next step, and is never aborted.
C18_WaitFreeBounded ==
    \A c \in Callers :
        loc[c].op = "new_id" =>
            /\ loc[c].i <= loc[c].mod_
            /\ pc[c] # "idle" => ENABLED AllocStep(c)
            /\ pc[c] # "panic"

\* C19: the cursor moves only by +1 modulo the word, wrapping from the largest
\* value to 0, and for every cursor value and every probe modulus m of a pool
\* up to this size the masked index of the next value is the masked index
\* plus one modulo m; every index probed lies in [0, M).
C19_CursorWrap ==
    /\ [](\A cur \in 0..(WordMod - 1) : \A p \in 1..PoolSize :
            LET m == NextPowerOfTwo(p)
            IN /\ ProbeIndex(FetchAdd(cur), m - 1) = (ProbeIndex(cur, m - 1) + 1) % m
               /\ ProbeIndex(cur, m - 1) \in 0..(m - 1))
    /\ [](\A c \in Callers :
            pc[c] \in {"n57", "n67", "n71"} =>
                /\ ProbeIndex(loc[c].curr_next, loc[c].mask) \in 0..(loc[c].mod_ - 1)
                /\ ProbeIndex(FetchAdd(loc[c].curr_next), loc[c].mask)
                      = (ProbeIndex(loc[c].curr_next, loc[c].mask) + 1) % loc[c].mod_)
    /\ [][NEXT' # NEXT =>
            /\ NEXT' = (NEXT + 1) % WordMod
            /\ NEXT' > NEXT \/ (NEXT = WordMod - 1 /\ NEXT' = 0)]_vars

\* a call has fetched the largest cursor value, leaving the cursor at 0, with
\* handles given out before the wrap still held
C19_Witness ==
    \E c \in Callers :
        /\ pc[c] = "n57" /\ loc[c].i = 0
        /\ loc[c].curr_next = WordMod - 1
        /\ NEXT = 0
        /\ AllHeld # {}

\* C20: under any interleaving a slot whose flag is Free has no stream; when
\* new_id returns h, slot h holds a stream for h with nothing buffered but what
\* was delivered since this allocation; when release_id(h) returns, slot h
\* holds no stream.
C20_StreamsDoNotLeak ==
    /\ [](\A k \in 0..SIGRTMAX : ~SlotUsed(k) => SlotInfo(k) = None)
    /\ [](\A c \in Callers :
            (pc[c] = "s88" /\ IsSome(loc[c].ret)) =>
                LET k == AsU32(Unwrap(loc[c].ret))
                IN /\ IsSome(SlotInfo(k))
                   /\ Unwrap(SlotInfo(k)).sig = k
                   /\ Unwrap(SlotInfo(k)).pending => delivered[k] >= 1)
    /\ [][\A c \in Callers :
            (pc[c] = "r100" /\ pc'[c] = "idle") =>
                SlotInfo(AsIndex(loc[c].id))' = None]_vars

\* the first slot was allocated and released: free again, without its stream
C20_Witness ==
    /\ NEXT = 1
    /\ IsSome(USED)
    /\ AllHeld = {}
    /\ \A c \in Callers : pc[c] = "idle"
    /\ ~SlotUsed(At(InitSignalsVec, 0))
    /\ SlotInfo(At(InitSignalsVec, 0)) = None

====
